---------------------------- MODULE Spec2Model ----------------------------
(***************************************************************************)
(* A model of files_scanner (src/files_scanner/src/main.rs): the recursive *)
(* walk of each configured root with its exclusion filter, the worker pool *)
(* that classifies each yielded file, reads its metadata and merges the    *)
(* record into the shared ScanResults under two mutexes, and the           *)
(* orchestrator that builds the Summary and hands it to save_results.      *)
(*                                                                         *)
(* Strings are sequences of one-character strings, so that to_lowercase,   *)
(* starts_with, contains, Path::file_name and Path::extension are computed *)
(* and not assumed.  A path is the string the program sees.                *)
(***************************************************************************)
EXTENDS Integers, Sequences, FiniteSets, TLC

(***************************************************************************)
(* Bounds of the model.                                                    *)
(***************************************************************************)
\* threads of the rayon pool (Opt.threads)
NumWorkers == 2
\* most mail profiles the registry lookup returns
MaxProfiles == 1

Workers == 1..NumWorkers
\* Option::None of a string or a path, of a category and of a directory entry
None == <<"none">>
NoCategory == "none"
NoEntry == [path |-> <<>>, depth |-> 0, kind |-> "none"]
\* the Err item walkdir hands out for a path it cannot stat
ErrEntry == [path |-> <<>>, depth |-> 0, kind |-> "error"]

(***************************************************************************)
(* Strings.                                                                *)
(***************************************************************************)
Uppers == <<"A","B","C","D","E","F","G","H","I","J","K","L","M",
            "N","O","P","Q","R","S","T","U","V","W","X","Y","Z">>
Lowers == <<"a","b","c","d","e","f","g","h","i","j","k","l","m",
            "n","o","p","q","r","s","t","u","v","w","x","y","z">>

\* char::to_lowercase on the ASCII letters
lower_char(c) ==
    IF \E i \in DOMAIN Uppers : Uppers[i] = c
    THEN Lowers[CHOOSE i \in DOMAIN Uppers : Uppers[i] = c]
    ELSE c

\* str::to_lowercase
to_lowercase(s) == [i \in 1..Len(s) |-> lower_char(s[i])]

\* str::starts_with(char)
starts_with(s, c) == Len(s) > 0 /\ s[1] = c

\* str::contains(&str): the empty pattern matches everywhere
contains(s, pat) ==
    \E i \in 0..(Len(s) - Len(pat)) : SubSeq(s, i + 1, i + Len(pat)) = pat

\* positions of the character c in s
Positions(s, c) == {i \in 1..Len(s) : s[i] = c}

Max(S) == CHOOSE x \in S : \A y \in S : y <= x

\* s without its trailing separators
RECURSIVE StripTrailingSep(_)
StripTrailingSep(s) ==
    IF Len(s) > 1 /\ s[Len(s)] = "/" THEN StripTrailingSep(SubSeq(s, 1, Len(s) - 1))
    ELSE s

\* Path::file_name: the last component of the path, None for the root "/"
\* and for a path that ends in ".."
file_name(path) ==
    LET p    == StripTrailingSep(path)
        seps == Positions(p, "/")
        last == IF seps = {} THEN p ELSE SubSeq(p, Max(seps) + 1, Len(p))
    IN  IF last = <<>> \/ last = <<".", ".">> THEN None ELSE last

\* Option<&OsStr>::unwrap_or_default().to_string_lossy()
unwrap_or_default(o) == IF o = None THEN <<>> ELSE o

\* Path::extension cutting at the first dot of the file name, not the last
extension_first_dot(path) ==
    LET name == file_name(path)
        dots == IF name = None THEN {} ELSE Positions(name, ".") \ {1}
    IN  IF name = None \/ dots = {} THEN None
        ELSE SubSeq(name, (CHOOSE d \in dots : \A e \in dots : d <= e) + 1, Len(name))

\* Path::extension: what follows the last '.' of the file name; None when
\* there is no file name, no '.', or the only '.' is the first character
extension(path) ==
    LET name == file_name(path)
        dots == IF name = None THEN {} ELSE Positions(name, ".")
    IN  IF name = None \/ dots = {} THEN None
        ELSE IF Max(dots) = 1 THEN None
        ELSE SubSeq(name, Max(dots) + 1, Len(name))

\* Path::join of a directory and one entry name
Join(dir, name) ==
    IF dir[Len(dir)] = "/" THEN dir \o name ELSE dir \o <<"/">> \o name

(***************************************************************************)
(* The directory tree the scans run on.  /home/proj is the tree of the     *)
(* documented scenario; /home/docs holds the other kinds of entry: an      *)
(* upper-case extension, no extension, a hidden file, a file whose own     *)
(* name contains an exclusion fragment, a symbolic link and a file whose   *)
(* metadata cannot be read.                                                *)
(***************************************************************************)
n_home == <<"h","o","m","e">>
n_proj == <<"p","r","o","j">>
n_docs == <<"d","o","c","s">>
n_a_csv == <<"a",".","c","s","v">>
n_b_CSV == <<"b",".","C","S","V">>
n_notes_txt == <<"n","o","t","e","s",".","t","x","t">>
n_cache == <<"c","a","c","h","e">>
n_x_json == <<"x",".","j","s","o","n">>
n_git == <<".","g","i","t">>
n_config_json == <<"c","o","n","f","i","g",".","j","s","o","n">>
n_Book_XLSX == <<"B","o","o","k",".","X","L","S","X">>
n_readme == <<"r","e","a","d","m","e">>
n_env_json == <<".","e","n","v",".","j","s","o","n">>
n_Cached_md == <<"C","a","c","h","e","d",".","m","d">>
n_link == <<"l","i","n","k">>
n_locked_log == <<"l","o","c","k","e","d",".","l","o","g">>
n_gone == <<"g","o","n","e">>

p_root  == <<"/">>
p_home  == Join(p_root, n_home)
p_proj  == Join(p_home, n_proj)
p_docs  == Join(p_home, n_docs)
p_cache == Join(p_proj, n_cache)
p_git   == Join(p_proj, n_git)
p_gone  == Join(p_home, n_gone)

Dir(path, names)  == [path |-> path, kind |-> "dir", entries |-> names, size |-> 0]
File(path, size)  == [path |-> path, kind |-> "file", entries |-> <<>>, size |-> size]
Symlink(path)     == [path |-> path, kind |-> "symlink", entries |-> <<>>, size |-> 0]

\* the local time of every file's last change and creation, as to_rfc3339 prints it
Stamp == "2024-05-01T12:00:00+00:00"

\* every node of the tree; a directory lists its entries in read_dir order
Nodes ==
    { Dir(p_home, <<n_proj, n_docs>>),
      Dir(p_proj, <<n_a_csv, n_cache, n_b_CSV, n_git, n_notes_txt>>),
      File(Join(p_proj, n_a_csv), 10),
      File(Join(p_proj, n_b_CSV), 20),
      File(Join(p_proj, n_notes_txt), 30),
      Dir(p_cache, <<n_x_json>>),
      File(Join(p_cache, n_x_json), 40),
      Dir(p_git, <<n_config_json>>),
      File(Join(p_git, n_config_json), 50),
      Dir(p_docs, <<n_Book_XLSX, n_env_json, n_readme, n_Cached_md, n_link, n_locked_log>>),
      File(Join(p_docs, n_Book_XLSX), 60),
      File(Join(p_docs, n_env_json), 70),
      File(Join(p_docs, n_readme), 80),
      File(Join(p_docs, n_Cached_md), 90),
      Symlink(Join(p_docs, n_link)),
      File(Join(p_docs, n_locked_log), 100) }

\* Path::exists
exists(path) == \E n \in Nodes : n.path = path

Node(path) == CHOOSE n \in Nodes : n.path = path

\* files whose metadata cannot be read when the scan starts
LockedFiles == {Join(p_docs, n_locked_log)}

\* files whose read permission may be taken away while the scan runs
RevocableFiles == {Join(p_proj, n_notes_txt), Join(p_docs, n_Book_XLSX)}

(***************************************************************************)
(* The pure functions of the scanner.                                      *)
(***************************************************************************)
str_csv   == <<"c","s","v">>
str_xlsx  == <<"x","l","s","x">>
str_xls   == <<"x","l","s">>
str_xlsm  == <<"x","l","s","m">>
str_xlsb  == <<"x","l","s","b">>
str_txt   == <<"t","x","t">>
str_md    == <<"m","d">>
str_log   == <<"l","o","g">>
str_rtf   == <<"r","t","f">>
str_json  == <<"j","s","o","n">>

\* fn should_skip_dir(path, exclude_dirs) -> bool
should_skip_dir(path, exclude_dirs) ==
    LET dir_name == to_lowercase(unwrap_or_default(file_name(path)))
        path_str == to_lowercase(path)
    IN  \/ starts_with(dir_name, ".")
        \/ \E k \in DOMAIN exclude_dirs :
              contains(path_str, to_lowercase(exclude_dirs[k]))

\* is_target_file naming the workbooks by a category scan_directory's match
\* has no arm for
is_target_file_spreadsheet(path) ==
    LET ext == to_lowercase(unwrap_or_default(extension(path)))
    IN  IF ext = str_csv THEN "csv"
        ELSE IF ext \in {str_xlsx, str_xls, str_xlsm, str_xlsb} THEN "spreadsheet"
        ELSE IF ext \in {str_txt, str_md, str_log, str_rtf} THEN "text"
        ELSE IF ext = str_json THEN "json"
        ELSE NoCategory

\* is_target_file without the to_lowercase of the extension
is_target_file_case_sensitive(path) ==
    LET ext == unwrap_or_default(extension(path))
    IN  IF ext = str_csv THEN "csv"
        ELSE IF ext \in {str_xlsx, str_xls, str_xlsm, str_xlsb} THEN "excel"
        ELSE IF ext \in {str_txt, str_md, str_log, str_rtf} THEN "text"
        ELSE IF ext = str_json THEN "json"
        ELSE NoCategory

\* fn is_target_file(path) -> Option<String>
is_target_file(path) ==
    LET ext == to_lowercase(unwrap_or_default(extension(path)))
    IN  IF ext = str_csv THEN "csv"
        ELSE IF ext \in {str_xlsx, str_xls, str_xlsm, str_xlsb} THEN "excel"
        ELSE IF ext \in {str_txt, str_md, str_log, str_rtf} THEN "text"
        ELSE IF ext = str_json THEN "json"
        ELSE NoCategory

\* walkdir's DirEntry: the path, the depth below the root and the file type
\* (that of the entry itself: a symbolic link is not followed)
DirEntry(path, depth) == [path |-> path, depth |-> depth, kind |-> Node(path).kind]

\* DirEntry::file_name: the path's file name, or the whole path if it has none
entry_file_name(e) == IF file_name(e.path) = None THEN e.path ELSE file_name(e.path)

\* fn is_hidden_entry(entry) -> bool
is_hidden_entry(e) == starts_with(entry_file_name(e), ".")

\* Path == Path compares components, so a trailing separator does not count
path_eq(a, b) == StripTrailingSep(a) = StripTrailingSep(b)

\* filter_predicate with the exclusion list forgotten: hidden names only
filter_predicate_hidden_only(e, dir, exclude_dirs) ==
    ~is_hidden_entry(e)

\* filter_predicate that lets every entry that is not a directory through
filter_predicate_dirs_only(e, dir, exclude_dirs) ==
    \/ e.kind # "dir"
    \/ /\ ~is_hidden_entry(e)
       /\ (path_eq(e.path, dir) \/ ~should_skip_dir(e.path, exclude_dirs))

\* the closure given to filter_entry in scan_directory
filter_predicate(e, dir, exclude_dirs) ==
    /\ ~is_hidden_entry(e)
    /\ (path_eq(e.path, dir) \/ ~should_skip_dir(e.path, exclude_dirs))

(***************************************************************************)
(* The walk: WalkDir::new(dir).follow_links(false).into_iter().  start is  *)
(* the root until it has been handed out; stack_list holds, for each       *)
(* directory that is open, the entries not yet read from it, the deepest   *)
(* last.  opened and read record which directories had read_dir called on  *)
(* them and which had an entry read from them.                             *)
(***************************************************************************)
NewWalker(dir) ==
    [start |-> dir, stack_list |-> <<>>, opened |-> {}, read |-> {}, from |-> <<>>]

\* IntoIter::push: open the directory and put its listing on the stack
push(wk, dent) ==
    [wk EXCEPT !.stack_list = Append(@, [i \in DOMAIN Node(dent.path).entries |->
                                            Join(dent.path, Node(dent.path).entries[i])]),
               !.from = Append(@, dent.path),
               !.opened = @ \cup {dent.path}]

\* IntoIter::pop, and IntoIter::skip_current_dir which pops a non-empty stack
pop(wk) ==
    IF wk.stack_list = <<>> THEN wk
    ELSE [wk EXCEPT !.stack_list = SubSeq(@, 1, Len(@) - 1),
                    !.from = SubSeq(@, 1, Len(@) - 1)]

\* IntoIter::handle_entry: a directory is opened before it is handed out
handle_entry(wk, dent) ==
    [wk |-> IF dent.kind = "dir" THEN push(wk, dent) ELSE wk, dent |-> dent]

\* IntoIter::next
RECURSIVE into_iter_next(_)
into_iter_next(wk) ==
    IF wk.start # None
    THEN IF exists(wk.start)
         THEN handle_entry([wk EXCEPT !.start = None], DirEntry(wk.start, 0))
         ELSE [wk |-> [wk EXCEPT !.start = None], dent |-> ErrEntry]
    ELSE IF wk.stack_list = <<>> THEN [wk |-> wk, dent |-> NoEntry]
    ELSE LET depth == Len(wk.stack_list)
             top   == wk.stack_list[depth]
         IN  IF top = <<>> THEN into_iter_next(pop(wk))
             ELSE handle_entry([wk EXCEPT !.stack_list[depth] = Tail(top),
                                          !.read = @ \cup {wk.from[depth]}],
                               DirEntry(Head(top), depth))

\* next_file with filter in the place of filter_entry: a rejected directory
\* is left out but stays open, and the walk goes on into it
RECURSIVE next_file_no_prune(_, _, _)
next_file_no_prune(wk, dir, exclude_dirs) ==
    LET r == into_iter_next(wk)
    IN  IF r.dent = NoEntry THEN r
        ELSE IF r.dent = ErrEntry THEN next_file_no_prune(r.wk, dir, exclude_dirs)
        ELSE IF ~filter_predicate(r.dent, dir, exclude_dirs)
        THEN next_file_no_prune(r.wk, dir, exclude_dirs)
        ELSE IF r.dent.kind = "file" THEN r
        ELSE next_file_no_prune(r.wk, dir, exclude_dirs)

\* FilterEntry::next followed by filter_map(ok) and filter(is_file): the next
\* regular file that the predicate lets through, None when the walk is over
RECURSIVE next_file(_, _, _)
next_file(wk, dir, exclude_dirs) ==
    LET r == into_iter_next(wk)
    IN  IF r.dent = NoEntry THEN r
        ELSE IF r.dent = ErrEntry THEN next_file(r.wk, dir, exclude_dirs)
        ELSE IF ~filter_predicate(r.dent, dir, exclude_dirs)
        THEN next_file(IF r.dent.kind = "dir" THEN pop(r.wk) ELSE r.wk, dir, exclude_dirs)
        ELSE IF r.dent.kind = "file" THEN r
        ELSE next_file(r.wk, dir, exclude_dirs)

\* every file a walk of dir hands out, in order
RECURSIVE drain(_, _, _)
drain(wk, dir, exclude_dirs) ==
    LET r == next_file(wk, dir, exclude_dirs)
    IN  IF r.dent = NoEntry THEN <<>>
        ELSE <<r.dent.path>> \o drain(r.wk, dir, exclude_dirs)

(***************************************************************************)
(* The configurations a scan is started with.                              *)
(***************************************************************************)
str_cache == <<"c","a","c","h","e">>
str_Cache == <<"C","a","c","h","e">>

\* Opt.dirs and Opt.exclude: the documented scenario; two roots of which one
\* lies under the other, with the inner one matching a fragment and without
\* any fragment; a hidden root beside a plain one; a root that is not on disk
Configs ==
    { [dirs |-> <<p_proj>>,          exclude |-> <<str_cache>>],
      [dirs |-> <<p_proj, p_cache>>, exclude |-> <<str_Cache>>],
      [dirs |-> <<p_proj, p_cache>>, exclude |-> <<>>],
      [dirs |-> <<p_git, p_docs>>,   exclude |-> <<str_cache>>],
      [dirs |-> <<p_gone, p_proj>>,  exclude |-> <<>>] }

\* env::consts::OS, and whether Metadata::modified and Metadata::created are
\* available on the platform
Platforms ==
    { [os |-> "windows", modified_ok |-> TRUE,  created_ok |-> TRUE],
      [os |-> "linux",   modified_ok |-> TRUE,  created_ok |-> FALSE],
      [os |-> "other",   modified_ok |-> FALSE, created_ok |-> FALSE] }

\* what scan_outlook can return: the names of the profiles in the registry
Profile(k) == [name |-> <<"profile", k>>, folders |-> <<>>]
ProfileLists == { [k \in 1..n |-> Profile(k)] : n \in 0..MaxProfiles }

(***************************************************************************)
(* The state.                                                              *)
(***************************************************************************)
VARIABLES
    scan_dirs,      \* main: the configured roots
    exclude_dirs,   \* main: the exclusion fragments
    platform,       \* the platform the binary was built for
    unreadable,     \* file system: the files whose metadata cannot be read
    main_pc,        \* main: where the orchestrator is
    dir_state,      \* per root: "pending", "walking", "drained", "done"
    walkers,        \* per root: the iterator of scan_directory
    pc,             \* per worker: where the closure of for_each is
    entry,          \* per worker: the entry it took, [root, path]
    item,           \* per worker: what process_file returned
    results,        \* Arc<Mutex<ScanResults>>: the data
    file_count,     \* Arc<Mutex<usize>>: the data
    results_mutex,  \* the thread that holds the lock of results
    count_mutex,    \* the thread that holds the lock of file_count
    total_count,    \* main: the local total_count
    summary,        \* main: the local summary
    written,        \* the files save_results has written
    exit_code,      \* the result of main
    yielded,        \* history: the entries the walks handed to workers
    extracted       \* history: the entries process_file returned Some for

config_vars == <<scan_dirs, exclude_dirs, platform>>
main_vars   == <<main_pc, total_count, summary, written, exit_code>>
worker_vars == <<pc, entry, item>>
shared_vars == <<results, file_count, results_mutex, count_mutex>>
walk_vars   == <<dir_state, walkers, yielded>>
vars == <<scan_dirs, exclude_dirs, platform, unreadable, main_pc, dir_state, walkers,
          pc, entry, item, results, file_count, results_mutex, count_mutex,
          total_count, summary, written, exit_code, yielded, extracted>>

Roots == DOMAIN scan_dirs
Categories == {"csv", "excel", "text", "json"}

\* a mutex nobody holds, and the thread of main
NoOwner == 0
MainThread == NumWorkers + 1

NoItemEntry == [root |-> 0, path |-> <<>>]
NoFileInfo == [path |-> <<>>, size |-> 0, modified |-> "", created |-> ""]
NoItem  == [category |-> NoCategory, file_info |-> NoFileInfo]
NoSummary ==
    [built |-> FALSE, platform |-> "", scan_dirs |-> <<>>, file_count |-> 0,
     categories |-> [csv |-> 0, excel |-> 0, text |-> 0, json |-> 0, email |-> 0]]

Init ==
    /\ \E c \in Configs : scan_dirs = c.dirs /\ exclude_dirs = c.exclude
    /\ platform \in Platforms
    /\ unreadable = LockedFiles
    /\ main_pc = "start"
    /\ dir_state = [i \in DOMAIN scan_dirs |-> "pending"]
    /\ walkers = [i \in DOMAIN scan_dirs |-> NewWalker(scan_dirs[i])]
    /\ pc = [w \in Workers |-> "idle"]
    /\ entry = [w \in Workers |-> NoItemEntry]
    /\ item = [w \in Workers |-> NoItem]
    /\ results = [csv |-> <<>>, excel |-> <<>>, text |-> <<>>, json |-> <<>>, email |-> <<>>]
    /\ file_count = 0
    /\ results_mutex = NoOwner
    /\ count_mutex = NoOwner
    /\ total_count = 0
    /\ summary = NoSummary
    /\ written = {}
    /\ exit_code = "running"
    /\ yielded = {}
    /\ extracted = {}

(***************************************************************************)
(* The root tasks: scan_dirs.par_iter().for_each(...) of main, and the     *)
(* walk of scan_directory that par_bridge shares among the workers.        *)
(***************************************************************************)
\* main reaches the parallel loop over the roots
StartScan ==
    /\ main_pc = "start"
    /\ main_pc' = "scanning"
    /\ UNCHANGED <<config_vars, unreadable, total_count, summary, written, exit_code,
                   worker_vars, shared_vars, walk_vars, extracted>>

\* RootTask without the test of dir.exists()
RootTask_no_check(i) ==
    /\ main_pc # "start"
    /\ dir_state[i] = "pending"
    /\ dir_state' = [dir_state EXCEPT ![i] = "walking"]
    /\ UNCHANGED <<config_vars, unreadable, main_vars, worker_vars, shared_vars,
                   walkers, yielded, extracted>>

\* the closure of the loop for root i: a root that is not on disk is passed
\* over, any other gets its walk
RootTask(i) ==
    /\ main_pc # "start"
    /\ dir_state[i] = "pending"
    /\ dir_state' = [dir_state EXCEPT ![i] = IF exists(scan_dirs[i]) THEN "walking" ELSE "done"]
    /\ UNCHANGED <<config_vars, unreadable, main_vars, worker_vars, shared_vars,
                   walkers, yielded, extracted>>

\* TakeEntry with the walk left where it was: the file is handed out again
TakeEntry_again(w, i) ==
    /\ pc[w] = "idle"
    /\ dir_state[i] = "walking"
    /\ LET r == next_file(walkers[i], scan_dirs[i], exclude_dirs)
       IN  IF r.dent = NoEntry
           THEN /\ dir_state' = [dir_state EXCEPT ![i] = "drained"]
                /\ UNCHANGED <<pc, entry, yielded>>
           ELSE /\ pc' = [pc EXCEPT ![w] = "process"]
                /\ entry' = [entry EXCEPT ![w] = [root |-> i, path |-> r.dent.path]]
                /\ yielded' = yielded \cup {[root |-> i, path |-> r.dent.path]}
                /\ UNCHANGED dir_state
    /\ UNCHANGED <<config_vars, unreadable, main_vars, item, shared_vars, walkers, extracted>>

\* an idle worker asks the walk of root i for its next file; the walk runs
\* (under the iterator's own lock) until it has one or is over
TakeEntry(w, i) ==
    /\ pc[w] = "idle"
    /\ dir_state[i] = "walking"
    /\ LET r == next_file(walkers[i], scan_dirs[i], exclude_dirs)
       IN  /\ walkers' = [walkers EXCEPT ![i] = r.wk]
           /\ IF r.dent = NoEntry
              THEN /\ dir_state' = [dir_state EXCEPT ![i] = "drained"]
                   /\ UNCHANGED <<pc, entry, yielded>>
              ELSE /\ pc' = [pc EXCEPT ![w] = "process"]
                   /\ entry' = [entry EXCEPT ![w] = [root |-> i, path |-> r.dent.path]]
                   /\ yielded' = yielded \cup {[root |-> i, path |-> r.dent.path]}
                   /\ UNCHANGED dir_state
    /\ UNCHANGED <<config_vars, unreadable, main_vars, item, shared_vars, extracted>>

\* RootFinish that does not wait for the entries still with a worker
RootFinish_early(i) ==
    /\ dir_state[i] = "drained"
    /\ dir_state' = [dir_state EXCEPT ![i] = "done"]
    /\ UNCHANGED <<config_vars, unreadable, main_vars, worker_vars, shared_vars,
                   walkers, yielded, extracted>>

\* for_each of root i returns once the walk is over and every entry it
\* handed out has been dealt with
RootFinish(i) ==
    /\ dir_state[i] = "drained"
    /\ \A w \in Workers : pc[w] # "idle" => entry[w].root # i
    /\ dir_state' = [dir_state EXCEPT ![i] = "done"]
    /\ UNCHANGED <<config_vars, unreadable, main_vars, worker_vars, shared_vars,
                   walkers, yielded, extracted>>

(***************************************************************************)
(* A worker on one entry: the closure given to for_each.                   *)
(***************************************************************************)
\* process_file that takes the failure of the metadata read for a success
process_file_unchecked(path, unread, plat) ==
    LET category == is_target_file(path)
    IN  IF category = NoCategory THEN NoItem
        ELSE [category |-> category,
              file_info |-> [path     |-> path,
                             size     |-> Node(path).size,
                             modified |-> IF plat.modified_ok THEN Stamp ELSE "unknown",
                             created  |-> IF plat.created_ok THEN Stamp ELSE "unknown"]]

\* fn process_file(path) -> Option<(String, FileInfo)>, on a file system in
\* which the files of unread cannot be read
process_file(path, unread, plat) ==
    LET category == is_target_file(path)
    IN  IF category = NoCategory THEN NoItem
        ELSE IF path \in unread \/ ~exists(path) THEN NoItem
        ELSE [category |-> category,
              file_info |-> [path     |-> path,
                             size     |-> Node(path).size,
                             modified |-> IF plat.modified_ok THEN Stamp ELSE "unknown",
                             created  |-> IF plat.created_ok THEN Stamp ELSE "unknown"]]

\* push_category without the arm for json: the record falls through
push_category_no_json(res, category, file_info) ==
    IF category = "csv" THEN [res EXCEPT !.csv = Append(@, file_info)]
    ELSE IF category = "excel" THEN [res EXCEPT !.excel = Append(@, file_info)]
    ELSE IF category = "text" THEN [res EXCEPT !.text = Append(@, file_info)]
    ELSE res

\* push_category with the arm for excel pushing to csv
push_category_excel_as_csv(res, category, file_info) ==
    IF category \in {"csv", "excel"} THEN [res EXCEPT !.csv = Append(@, file_info)]
    ELSE IF category = "text" THEN [res EXCEPT !.text = Append(@, file_info)]
    ELSE IF category = "json" THEN [res EXCEPT !.json = Append(@, file_info)]
    ELSE res

\* the match on the category that pushes the record
push_category(res, category, file_info) ==
    IF category = "csv" THEN [res EXCEPT !.csv = Append(@, file_info)]
    ELSE IF category = "excel" THEN [res EXCEPT !.excel = Append(@, file_info)]
    ELSE IF category = "text" THEN [res EXCEPT !.text = Append(@, file_info)]
    ELSE IF category = "json" THEN [res EXCEPT !.json = Append(@, file_info)]
    ELSE res

\* process_file(entry.path()): classification, then the metadata read
ProcessFile(w) ==
    /\ pc[w] = "process"
    /\ LET r == process_file(entry[w].path, unreadable, platform)
       IN  IF r = NoItem
           THEN /\ pc' = [pc EXCEPT ![w] = "idle"]
                /\ entry' = [entry EXCEPT ![w] = NoItemEntry]
                /\ UNCHANGED <<item, extracted>>
           ELSE /\ pc' = [pc EXCEPT ![w] = "lock_results"]
                /\ item' = [item EXCEPT ![w] = r]
                /\ extracted' = extracted \cup {entry[w]}
                /\ UNCHANGED entry
    /\ UNCHANGED <<config_vars, unreadable, main_vars, shared_vars, walk_vars>>

\* LockResults that does not wait for the lock
LockResults_unguarded(w) ==
    /\ pc[w] = "lock_results"
    /\ results_mutex' = w
    /\ pc' = [pc EXCEPT ![w] = "lock_count"]
    /\ UNCHANGED <<config_vars, unreadable, main_vars, entry, item, results, file_count,
                   count_mutex, walk_vars, extracted>>

\* let mut results_lock = results.lock().unwrap()
LockResults(w) ==
    /\ pc[w] = "lock_results"
    /\ results_mutex = NoOwner
    /\ results_mutex' = w
    /\ pc' = [pc EXCEPT ![w] = "lock_count"]
    /\ UNCHANGED <<config_vars, unreadable, main_vars, entry, item, results, file_count,
                   count_mutex, walk_vars, extracted>>

\* let mut count_lock = file_count.lock().unwrap()
LockCount(w) ==
    /\ pc[w] = "lock_count"
    /\ count_mutex = NoOwner
    /\ count_mutex' = w
    /\ pc' = [pc EXCEPT ![w] = "push"]
    /\ UNCHANGED <<config_vars, unreadable, main_vars, entry, item, results, file_count,
                   results_mutex, walk_vars, extracted>>

\* match category.as_str() { ... push(file_info) ... }
Push(w) ==
    /\ pc[w] = "push"
    /\ results' = push_category(results, item[w].category, item[w].file_info)
    /\ pc' = [pc EXCEPT ![w] = "incr"]
    /\ UNCHANGED <<config_vars, unreadable, main_vars, entry, item, file_count,
                   results_mutex, count_mutex, walk_vars, extracted>>

\* *count_lock += 1
Incr(w) ==
    /\ pc[w] = "incr"
    /\ file_count' = file_count + 1
    /\ pc' = [pc EXCEPT ![w] = "drop_count"]
    /\ UNCHANGED <<config_vars, unreadable, main_vars, entry, item, results,
                   results_mutex, count_mutex, walk_vars, extracted>>

\* the end of the if-let block: count_lock is dropped first
DropCountLock(w) ==
    /\ pc[w] = "drop_count"
    /\ count_mutex' = NoOwner
    /\ pc' = [pc EXCEPT ![w] = "drop_results"]
    /\ UNCHANGED <<config_vars, unreadable, main_vars, entry, item, results, file_count,
                   results_mutex, walk_vars, extracted>>

\* then results_lock, and the closure returns
DropResultsLock(w) ==
    /\ pc[w] = "drop_results"
    /\ results_mutex' = NoOwner
    /\ pc' = [pc EXCEPT ![w] = "idle"]
    /\ entry' = [entry EXCEPT ![w] = NoItemEntry]
    /\ item' = [item EXCEPT ![w] = NoItem]
    /\ UNCHANGED <<config_vars, unreadable, main_vars, results, file_count,
                   count_mutex, walk_vars, extracted>>

(***************************************************************************)
(* The file system under the scan: a file that a worker has been handed    *)
(* and has not read yet loses its read permission.                         *)
(***************************************************************************)
Revoke(w) ==
    /\ pc[w] = "process"
    /\ entry[w].path \in RevocableFiles \ unreadable
    /\ unreadable' = unreadable \cup {entry[w].path}
    /\ UNCHANGED <<config_vars, main_vars, worker_vars, shared_vars, walk_vars, extracted>>

(***************************************************************************)
(* The orchestrator after the parallel loop.                               *)
(***************************************************************************)
\* JoinRoots that returns as soon as one root task has returned
JoinRoots_any ==
    /\ main_pc = "scanning"
    /\ \E i \in Roots : dir_state[i] = "done"
    /\ main_pc' = IF platform.os = "windows" THEN "outlook_lock" ELSE "summary_lock"
    /\ UNCHANGED <<config_vars, unreadable, total_count, summary, written, exit_code,
                   worker_vars, shared_vars, walk_vars, extracted>>

\* for_each over the roots returns when every root task has returned
JoinRoots ==
    /\ main_pc = "scanning"
    /\ \A i \in Roots : dir_state[i] = "done"
    /\ main_pc' = IF platform.os = "windows" THEN "outlook_lock" ELSE "summary_lock"
    /\ UNCHANGED <<config_vars, unreadable, total_count, summary, written, exit_code,
                   worker_vars, shared_vars, walk_vars, extracted>>

\* #[cfg(target_os = "windows")] let mut results_lock = results.lock().unwrap()
OutlookLock ==
    /\ main_pc = "outlook_lock"
    /\ results_mutex = NoOwner
    /\ results_mutex' = MainThread
    /\ main_pc' = "outlook_scan"
    /\ UNCHANGED <<config_vars, unreadable, total_count, summary, written, exit_code,
                   worker_vars, results, file_count, count_mutex, walk_vars, extracted>>

\* OutlookScan whose guard outlives the block
OutlookScan_keeps_lock ==
    /\ main_pc = "outlook_scan"
    /\ \E profiles \in ProfileLists : results' = [results EXCEPT !.email = profiles]
    /\ main_pc' = "summary_lock"
    /\ UNCHANGED <<config_vars, unreadable, total_count, summary, written, exit_code,
                   worker_vars, file_count, results_mutex, count_mutex, walk_vars,
                   extracted>>

\* results_lock.email = scan_outlook(), and the block ends
OutlookScan ==
    /\ main_pc = "outlook_scan"
    /\ \E profiles \in ProfileLists : results' = [results EXCEPT !.email = profiles]
    /\ results_mutex' = NoOwner
    /\ main_pc' = "summary_lock"
    /\ UNCHANGED <<config_vars, unreadable, total_count, summary, written, exit_code,
                   worker_vars, file_count, count_mutex, walk_vars, extracted>>

\* let result_data = results.lock().unwrap()
LockSummary ==
    /\ main_pc = "summary_lock"
    /\ results_mutex = NoOwner
    /\ results_mutex' = MainThread
    /\ main_pc' = "read_count"
    /\ UNCHANGED <<config_vars, unreadable, total_count, summary, written, exit_code,
                   worker_vars, results, file_count, count_mutex, walk_vars, extracted>>

\* let total_count = *file_count.lock().unwrap(): the guard is a temporary
ReadCount ==
    /\ main_pc = "read_count"
    /\ count_mutex = NoOwner
    /\ total_count' = file_count
    /\ main_pc' = "summarize"
    /\ UNCHANGED <<config_vars, unreadable, summary, written, exit_code,
                   worker_vars, shared_vars, walk_vars, extracted>>

\* summary_categories without the entry for the mail profiles filled in
summary_categories_no_email(res) ==
    [csv   |-> Len(res.csv),
     excel |-> Len(res.excel),
     text  |-> Len(res.text),
     json  |-> Len(res.json),
     email |-> 0]

\* the categories map of the summary
summary_categories(res) ==
    [csv   |-> Len(res.csv),
     excel |-> Len(res.excel),
     text  |-> Len(res.text),
     json  |-> Len(res.json),
     email |-> Len(res.email)]

\* let summary = Summary { ... }
Summarize ==
    /\ main_pc = "summarize"
    /\ summary' = [built      |-> TRUE,
                   platform   |-> platform.os,
                   scan_dirs  |-> scan_dirs,
                   file_count |-> total_count,
                   categories |-> summary_categories(results)]
    /\ main_pc' = "save"
    /\ UNCHANGED <<config_vars, unreadable, total_count, written, exit_code,
                   worker_vars, shared_vars, walk_vars, extracted>>

\* what save_results can come to: the output directory cannot be created,
\* the results file or the summary file cannot be written, or all is written
SaveOutcomes == {"create_dir_failed", "json_failed", "summary_failed", "ok"}

\* SaveResults that drops the error of save_results
SaveResults_ignore_error ==
    /\ main_pc = "save"
    /\ \E outcome \in SaveOutcomes :
          /\ written' = IF outcome = "ok" THEN {"scan_results.json", "summary.txt"}
                        ELSE IF outcome = "summary_failed" THEN {"scan_results.json"}
                        ELSE {}
          /\ exit_code' = "success"
    /\ results_mutex' = NoOwner
    /\ main_pc' = "done"
    /\ UNCHANGED <<config_vars, unreadable, total_count, summary, worker_vars,
                   results, file_count, count_mutex, walk_vars, extracted>>

\* save_results(&result_data, &summary, &output_dir)? and the return of main,
\* which drops result_data
SaveResults ==
    /\ main_pc = "save"
    /\ \E outcome \in SaveOutcomes :
          /\ written' = IF outcome = "ok" THEN {"scan_results.json", "summary.txt"}
                        ELSE IF outcome = "summary_failed" THEN {"scan_results.json"}
                        ELSE {}
          /\ exit_code' = IF outcome = "ok" THEN "success" ELSE "failure"
    /\ results_mutex' = NoOwner
    /\ main_pc' = "done"
    /\ UNCHANGED <<config_vars, unreadable, total_count, summary, worker_vars,
                   results, file_count, count_mutex, walk_vars, extracted>>

Next ==
    \/ StartScan
    \/ \E i \in Roots : RootTask(i)
    \/ \E w \in Workers, i \in Roots : TakeEntry(w, i)
    \/ \E i \in Roots : RootFinish(i)
    \/ \E w \in Workers : ProcessFile(w)
    \/ \E w \in Workers : Revoke(w)
    \/ \E w \in Workers : LockResults(w)
    \/ \E w \in Workers : LockCount(w)
    \/ \E w \in Workers : Push(w)
    \/ \E w \in Workers : Incr(w)
    \/ \E w \in Workers : DropCountLock(w)
    \/ \E w \in Workers : DropResultsLock(w)
    \/ JoinRoots
    \/ OutlookLock
    \/ OutlookScan
    \/ LockSummary
    \/ ReadCount
    \/ Summarize
    \/ SaveResults

Spec == Init /\ [][Next]_vars

\* the steps of the threads other than the walk and the extraction
LockSteps ==
    \/ StartScan
    \/ \E i \in Roots : RootTask(i)
    \/ \E i \in Roots : RootFinish(i)
    \/ \E w \in Workers : LockResults(w)
    \/ \E w \in Workers : LockCount(w)
    \/ \E w \in Workers : Push(w)
    \/ \E w \in Workers : Incr(w)
    \/ \E w \in Workers : DropCountLock(w)
    \/ \E w \in Workers : DropResultsLock(w)
    \/ JoinRoots
    \/ OutlookLock
    \/ OutlookScan
    \/ LockSummary
    \/ ReadCount
    \/ Summarize
    \/ SaveResults

\* a worker taking an entry from a walk or extracting the one it holds
WalkSteps ==
    \/ \E w \in Workers, i \in Roots : TakeEntry(w, i)
    \/ \E w \in Workers : ProcessFile(w)

\* WalkSteps can be taken as soon as the first conjuncts of TakeEntry or of
\* ProcessFile hold: what follows them always has a value
WalkStepsEnabled ==
    \/ \E w \in Workers, i \in Roots : pc[w] = "idle" /\ dir_state[i] = "walking"
    \/ \E w \in Workers : pc[w] = "process"

\* the threads of the process are scheduled: a step of the program that can
\* be taken is not put off for ever (weak fairness, for WalkSteps with its
\* enabling condition written out).  Nothing is asked of the file system's
\* Revoke.
FairSpec ==
    /\ Spec
    /\ WF_vars(LockSteps)
    /\ ([]<>(~WalkStepsEnabled) \/ []<><<WalkSteps>>_vars)

(***************************************************************************)
(* Definitions the properties share.                                       *)
(***************************************************************************)
\* the file records of all four categories
AllFiles(res) == res.csv \o res.excel \o res.text \o res.json

\* how many records of seq carry the path p
CountPath(seq, p) == Cardinality({k \in DOMAIN seq : seq[k].path = p})

FilePaths == {n.path : n \in {m \in Nodes : m.kind = "file"}}

\* the directories (and the root "/") above p
Ancestors(p) == {SubSeq(p, 1, k - 1) : k \in {j \in Positions(p, "/") : j > 1}}

\* p lies below the directory dir
Below(dir, p) == dir \in Ancestors(p)

\* the scan is complete: the summary has been built
ScanComplete == summary.built

\* the workers that hold a record they have not pushed yet
Unmerged(p) ==
    {w \in Workers : pc[w] \in {"lock_results", "lock_count", "push"} /\ entry[w].path = p}

(***************************************************************************)
(* C1.  As claimed: after every completed scan, summary.file_count equals  *)
(* the lengths of csv, excel, text, json and email added up.               *)
(***************************************************************************)
C1_FileCountIncludesEmail ==
    ScanComplete =>
        summary.file_count = Len(results.csv) + Len(results.excel) + Len(results.text)
                             + Len(results.json) + Len(results.email)

\* C1 as amended: after every completed scan, summary.file_count equals the
\* lengths of the four file categories added up; the mail profiles are stored
\* in results.email and are not counted.
C1_FileCountIsSumOfFileCategories ==
    ScanComplete =>
        /\ summary.file_count = Len(results.csv) + Len(results.excel)
                                + Len(results.text) + Len(results.json)
        /\ summary.file_count = summary.categories.csv + summary.categories.excel
                                + summary.categories.text + summary.categories.json

\* a completed scan that stored files and a mail profile
C1_Witness ==
    ScanComplete /\ summary.file_count >= 3 /\ Len(results.email) >= 1

(***************************************************************************)
(* C2.  Every entry for which process_file returned a record is merged     *)
(* exactly once: in every state, the records stored under a path are as    *)
(* many as the entries with that path that were extracted, less those a    *)
(* worker still holds unmerged; every entry handed out that process_file   *)
(* accepts is extracted once its worker has processed it; when the scan is *)
(* complete every worker is idle, so none is lost and none merged twice.   *)
(***************************************************************************)
C2_MergedExactlyOnce ==
    /\ \A p \in FilePaths :
          CountPath(AllFiles(results), p) =
              Cardinality({e \in extracted : e.path = p}) - Cardinality(Unmerged(p))
    /\ \A k \in DOMAIN AllFiles(results) : AllFiles(results)[k].path \in FilePaths
    /\ extracted \subseteq yielded
    /\ \A e \in yielded :
          (/\ process_file(e.path, unreadable, platform) # NoItem
           /\ \A w \in Workers : pc[w] = "process" => entry[w] # e) => e \in extracted
    /\ ScanComplete => \A w \in Workers : pc[w] = "idle"

\* a complete scan in which both roots handed out the same file
C2_Witness ==
    /\ main_pc = "done"
    /\ Cardinality(extracted) >= 4
    /\ \E e1, e2 \in extracted : e1.root # e2.root /\ e1.path = e2.path

(***************************************************************************)
(* C3.  In every state, every record stored under a category has a path    *)
(* that is_target_file maps to that category.                              *)
(***************************************************************************)
C3_StoredUnderItsCategory ==
    \A c \in Categories : \A k \in DOMAIN results[c] :
        is_target_file(results[c][k].path) = c

\* records are stored under three categories, one of them for an upper-case
\* extension
C3_Witness ==
    /\ Len(results.csv) >= 1 /\ Len(results.json) >= 1 /\ Len(results.text) >= 1
    /\ \E k \in DOMAIN results.csv : results.csv[k].path = Join(p_proj, n_b_CSV)

(***************************************************************************)
(* C4.  In every state, every stored record lies below one of the roots,   *)
(* its path contains no exclusion fragment, its own name is not hidden,    *)
(* and no directory between that root and the file is hidden or contains   *)
(* a fragment.                                                             *)
(***************************************************************************)
\* the last component of q starts with '.'
HiddenName(q) ==
    LET seps == Positions(q, "/")
    IN  Len(q) > Max(seps \cup {0}) /\ q[Max(seps \cup {0}) + 1] = "."

\* the lowercased q contains a lowercased fragment of the exclusion list
MatchesFragment(q) ==
    \E k \in DOMAIN exclude_dirs :
        \E a \in 0..(Len(q) - Len(exclude_dirs[k])) :
            \A b \in 1..Len(exclude_dirs[k]) :
                lower_char(q[a + b]) = lower_char(exclude_dirs[k][b])

C4_NothingExcludedIsStored ==
    \A k \in DOMAIN AllFiles(results) :
        LET p == AllFiles(results)[k].path
        IN  /\ ~HiddenName(p)
            /\ ~MatchesFragment(p)
            /\ \E i \in Roots :
                  /\ Below(scan_dirs[i], p)
                  /\ \A q \in Ancestors(p) :
                        Len(q) > Len(scan_dirs[i]) => ~HiddenName(q) /\ ~MatchesFragment(q)

\* the scan of the scenario tree is complete: cache and .git were pruned and
\* the three files beside them are stored
C4_Witness ==
    /\ main_pc = "done"
    /\ scan_dirs = <<p_proj>>
    /\ exclude_dirs # <<>>
    /\ Len(AllFiles(results)) = 3

(***************************************************************************)
(* C5.  As claimed: after a completed scan each file on disk appears at    *)
(* most once across the category sequences, whatever the roots.            *)
(***************************************************************************)
C5_EachFileAtMostOnce ==
    ScanComplete => \A p \in FilePaths : CountPath(AllFiles(results), p) <= 1

\* C5 as amended: a file is merged at most once for each configured root it
\* lies below, so at most once when no root lies under (or equals) another;
\* a file below k of the roots can appear k times and is counted k times.
C5_AtMostOncePerRoot ==
    \A p \in FilePaths :
        CountPath(AllFiles(results), p) <=
            Cardinality({i \in Roots : Below(scan_dirs[i], p)})

\* a completed scan whose results hold the same file twice
C5_Witness ==
    /\ ScanComplete
    /\ \E p \in FilePaths : CountPath(AllFiles(results), p) = 2
    /\ summary.file_count = 5

(***************************************************************************)
(* C6.  The locking discipline.                                            *)
(***************************************************************************)
HoldsResults(w) == pc[w] \in {"lock_count", "push", "incr", "drop_count", "drop_results"}
HoldsCount(w)   == pc[w] \in {"push", "incr", "drop_count"}

\* this step appends one record to one category and leaves the counter, or
\* adds one to the counter and leaves the records
OneInsertionOrOneIncrement ==
    \/ /\ file_count' = file_count
       /\ \E c \in Categories :
             /\ Len(results'[c]) = Len(results[c]) + 1
             /\ SubSeq(results'[c], 1, Len(results[c])) = results[c]
             /\ \A d \in (Categories \cup {"email"}) \ {c} : results'[d] = results[d]
    \/ /\ file_count' = file_count + 1
       /\ results' = results

\* a worker that reads the file system (the walk, taken while idle, and
\* process_file) holds neither lock, and the locks are held by the workers
\* that are between their acquisition and their release
LocksFollowTheCode ==
    /\ \A w \in Workers : pc[w] \in {"idle", "process", "lock_results"} =>
                             results_mutex # w /\ count_mutex # w
    /\ \A w \in Workers : (results_mutex = w) <=> HoldsResults(w)
    /\ \A w \in Workers : (count_mutex = w) <=> HoldsCount(w)

\* no two workers are between the first acquisition and the last release
OneWorkerInside == Cardinality({w \in Workers : HoldsResults(w)}) <= 1

\* between acquisition and release a worker inserts one record and adds one
SectionIsOnePair ==
    \A w \in Workers :
        /\ pc[w] \in {"lock_count", "push", "drop_count", "drop_results"} =>
               Len(AllFiles(results)) = file_count
        /\ pc[w] = "incr" => Len(AllFiles(results)) = file_count + 1

\* As claimed: every mutation of ScanResults and of the counter is one
\* record's insertion or one increment by a worker that holds both locks; a
\* worker holds no lock while it reads the file system; no two workers are
\* inside the insertion section together.
C6_EveryMutationIsOneInsertion ==
    [][ /\ (results' # results \/ file_count' # file_count) =>
            /\ \E w \in Workers : results_mutex = w /\ count_mutex = w
            /\ OneInsertionOrOneIncrement
        /\ LocksFollowTheCode /\ LocksFollowTheCode'
        /\ OneWorkerInside /\ OneWorkerInside' ]_vars

\* C6 as amended: every mutation of the four file sequences and of the
\* counter is one record's insertion or one increment by a worker that holds
\* both locks, each hold covering one insertion and one increment; a worker
\* holds no lock while it reads the file system; no two workers are inside
\* the insertion section together.  The mail profiles are the exception: the
\* orchestrator replaces results.email as a whole, holding the results lock
\* alone, with no increment, once every worker is idle.
C6_WorkerMutationsUnderBothLocks ==
    /\ [][ /\ (AllFiles(results') # AllFiles(results) \/ file_count' # file_count) =>
               /\ \E w \in Workers : results_mutex = w /\ count_mutex = w
               /\ OneInsertionOrOneIncrement
           /\ results'.email # results.email =>
               /\ results_mutex = MainThread /\ count_mutex = NoOwner
               /\ \A w \in Workers : pc[w] = "idle"
               /\ AllFiles(results') = AllFiles(results) /\ file_count' = file_count ]_vars
    /\ [](LocksFollowTheCode /\ OneWorkerInside /\ SectionIsOnePair)

\* one worker is about to push under both locks while another reads metadata
C6_Witness ==
    \E w1, w2 \in Workers :
        /\ pc[w1] = "push" /\ results_mutex = w1 /\ count_mutex = w1
        /\ pc[w2] = "process"

(***************************************************************************)
(* C7.  Every complete scan of the unchanged tree ends with the counts of  *)
(* the sequential scan of the same configuration (the roots one after the  *)
(* other, each file processed as it is handed out), whatever the           *)
(* interleaving of workers and roots: any two complete scans agree.        *)
(***************************************************************************)
\* the entries of the sequential scan
ReferenceEntries ==
    UNION { LET files == drain(NewWalker(scan_dirs[i]), scan_dirs[i], exclude_dirs)
            IN  {[root |-> i, path |-> files[k]] : k \in DOMAIN files}
            : i \in {j \in Roots : exists(scan_dirs[j])} }

ReferenceCount(c) ==
    Cardinality({e \in ReferenceEntries :
                    process_file(e.path, LockedFiles, platform).category = c})

C7_CountsIndependentOfSchedule ==
    (ScanComplete /\ unreadable = LockedFiles) =>
        /\ \A c \in Categories :
              /\ Len(results[c]) = ReferenceCount(c)
              /\ summary.categories[c] = ReferenceCount(c)
        /\ summary.file_count = ReferenceCount("csv") + ReferenceCount("excel")
                                + ReferenceCount("text") + ReferenceCount("json")

\* a complete scan of two roots in which the file stored last in csv was
\* handed out before the one stored first
C7_Witness ==
    /\ ScanComplete /\ unreadable = LockedFiles
    /\ Len(scan_dirs) = 2
    /\ results.csv = << process_file(Join(p_proj, n_b_CSV), LockedFiles, platform).file_info,
                        process_file(Join(p_proj, n_a_csv), LockedFiles, platform).file_info >>

(***************************************************************************)
(* C8.  The summary is computed after every root's pipeline has completed: *)
(* from the moment main holds the results lock for the summary, every root *)
(* is done and every worker idle, no step changes the results or the       *)
(* counter, and the summary's five category entries are the lengths of the *)
(* sequences in the results handed to save_results.                        *)
(***************************************************************************)
SummaryPhase == main_pc \in {"read_count", "summarize", "save", "done"}

C8_SummaryAfterAllRoots ==
    /\ [](SummaryPhase =>
             /\ \A i \in Roots : dir_state[i] = "done"
             /\ \A w \in Workers : pc[w] = "idle")
    /\ [][SummaryPhase => results' = results /\ file_count' = file_count]_vars
    /\ [](ScanComplete =>
             /\ \A c \in Categories \cup {"email"} : summary.categories[c] = Len(results[c])
             /\ summary.file_count = file_count)

\* main has returned with a summary of files of two categories and a profile
C8_Witness ==
    /\ main_pc = "done"
    /\ summary.categories.csv = 2
    /\ summary.categories.text = 1
    /\ summary.categories.email = 1

(***************************************************************************)
(* C9.  As claimed: every directory below a root whose name starts with    *)
(* '.' is skipped, so that nothing is read from it and nothing below it is *)
(* handed out; a root whose own name starts with '.' is still traversed    *)
(* and the files in it are handed out.                                     *)
(***************************************************************************)
\* the regular files that lie directly in the directory dir
DirectFiles(dir) ==
    {Join(dir, Node(dir).entries[k]) : k \in DOMAIN Node(dir).entries} \cap FilePaths

\* the last component of the path q
OwnName(q) == SubSeq(q, Max(Positions(q, "/") \cup {0}) + 1, Len(q))

C9_HiddenSkippedExceptRoot ==
    /\ \A e \in yielded : \A q \in Ancestors(e.path) :
          Len(q) > Len(scan_dirs[e.root]) => ~HiddenName(q)
    /\ \A i \in Roots : \A q \in walkers[i].read :
          Len(q) > Len(scan_dirs[i]) => ~HiddenName(q)
    /\ \A i \in Roots :
          (exists(scan_dirs[i]) /\ HiddenName(scan_dirs[i]) /\ dir_state[i] = "done") =>
              \A p \in DirectFiles(scan_dirs[i]) :
                  (~HiddenName(p) /\ ~MatchesFragment(p)) =>
                      [root |-> i, path |-> p] \in yielded

(***************************************************************************)
(* C10.  As claimed: a root whose own name matches an exclusion fragment   *)
(* is exempt from the fragment check, so a scan of it traverses it and     *)
(* reports the recognized files it contains.                               *)
(***************************************************************************)
\* the own name of the path q contains a fragment of the exclusion list
NameMatchesFragment(q) ==
    \E k \in DOMAIN exclude_dirs :
        contains(to_lowercase(OwnName(q)), to_lowercase(exclude_dirs[k]))

C10_ExcludedLookingRootIsScanned ==
    \A i \in Roots :
        (/\ exists(scan_dirs[i])
         /\ ~HiddenName(scan_dirs[i])
         /\ NameMatchesFragment(scan_dirs[i])
         /\ ScanComplete /\ unreadable = LockedFiles) =>
            /\ scan_dirs[i] \in walkers[i].read
            /\ \A p \in DirectFiles(scan_dirs[i]) :
                  (~HiddenName(p) /\ is_target_file(p) # NoCategory /\ p \notin LockedFiles) =>
                      CountPath(results[is_target_file(p)], p) >= 1

(***************************************************************************)
(* C11.  A configured root that is not on disk is skipped without error:   *)
(* its walk is never started and it hands out no file; a walk is started   *)
(* only for a root that dir.exists() has found on disk; when the scan is   *)
(* complete every other root has handed out every file of its walk; the    *)
(* scan goes on to its end, and main returns success once the output is    *)
(* written.                                                                *)
(***************************************************************************)
\* the files the walk of root i hands out when it is run to its end
WalkOf(i) ==
    LET files == drain(NewWalker(scan_dirs[i]), scan_dirs[i], exclude_dirs)
    IN  {files[k] : k \in DOMAIN files}

AllWritten == {"scan_results.json", "summary.txt"}

\* some thread can take a step
CanStep == WalkStepsEnabled \/ ENABLED LockSteps

C11_MissingRootSkipped ==
    /\ \A i \in Roots : ~exists(scan_dirs[i]) =>
          /\ dir_state[i] \in {"pending", "done"}
          /\ walkers[i] = NewWalker(scan_dirs[i])
          /\ \A e \in yielded : e.root # i
    /\ \A i \in Roots :
          (walkers[i] # NewWalker(scan_dirs[i]) \/ dir_state[i] \in {"walking", "drained"})
              => exists(scan_dirs[i])
    /\ ScanComplete => \A i \in Roots : exists(scan_dirs[i]) =>
          {e.path : e \in {y \in yielded : y.root = i}} = WalkOf(i)
    /\ (\E i \in Roots : ~exists(scan_dirs[i])) =>
          /\ main_pc # "done" => CanStep
          /\ (main_pc = "done" /\ written = AllWritten) => exit_code = "success"

\* main has returned success from a scan of a root that is not on disk and
\* of a root whose four files are all stored
C11_Witness ==
    /\ main_pc = "done" /\ exit_code = "success"
    /\ \E i \in Roots : ~exists(scan_dirs[i]) /\ dir_state[i] = "done"
    /\ summary.file_count = 4

(***************************************************************************)
(* C12.  A discovered file whose metadata read fails (it was unreadable    *)
(* from the start, or lost its permission between discovery and the read)  *)
(* is never extracted, stored or counted; the worker goes back to idle     *)
(* without a second attempt and no entry is handed out twice; the scan     *)
(* goes on to completion; and at completion the records and counts are     *)
(* exactly those of the sequential scan of the tree without the failing    *)
(* files.                                                                  *)
(***************************************************************************)
\* the sequential scan of the tree from which the unreadable files are gone
EntriesWithoutFailing == {e \in ReferenceEntries : e.path \notin unreadable}

RecordOf(p) == process_file(p, {}, platform)

C12_UnreadableFileSkipped ==
    /\ [](\A p \in unreadable :
             /\ \A e \in extracted : e.path # p
             /\ \A w \in Workers : item[w].file_info.path # p
             /\ CountPath(AllFiles(results), p) = 0)
    /\ [][\A w \in Workers :
             /\ (pc[w] = "process" /\ entry[w].path \in unreadable)
                   => (pc'[w] = "idle" \/ (pc'[w] = "process" /\ entry'[w] = entry[w]))
             /\ (pc[w] = "idle" /\ pc'[w] = "process") => entry'[w] \notin yielded]_vars
    /\ []((unreadable # {} /\ main_pc # "done") => CanStep)
    /\ [](ScanComplete =>
             /\ \A c \in Categories :
                   /\ \A k \in DOMAIN results[c] :
                         /\ results[c][k] = RecordOf(results[c][k].path).file_info
                         /\ RecordOf(results[c][k].path).category = c
                   /\ \A p \in FilePaths :
                         CountPath(results[c], p) =
                             Cardinality({e \in EntriesWithoutFailing :
                                             e.path = p /\ RecordOf(p).category = c})
             /\ summary.file_count =
                   Cardinality({e \in EntriesWithoutFailing :
                                   RecordOf(e.path).category \in Categories}))

\* a complete scan of /home/proj in which notes.txt lost its permission in
\* the hands of a worker: the two csv files are stored, no text file is
C12_Witness ==
    /\ ScanComplete
    /\ Join(p_proj, n_notes_txt) \in unreadable
    /\ [root |-> 1, path |-> Join(p_proj, n_notes_txt)] \in yielded
    /\ Len(results.csv) = 2
    /\ results.text = <<>>
    /\ summary.file_count = 2

(***************************************************************************)
(* C13.  The process exits with success exactly when both output files     *)
(* have been written, and with failure when the output directory cannot be *)
(* created or one of the files cannot be written; nothing is written and   *)
(* no exit is taken before the scan is complete (every root done, every    *)
(* worker idle, the summary built); and after any per-file failure (an     *)
(* unmatched extension, an unreadable file) the scan still reaches the     *)
(* persistence step, where success is still possible and failure comes     *)
(* from the output alone.                                                  *)
(***************************************************************************)
\* the entries a worker gave up on: handed out, not extracted, not held
Failed ==
    {e \in yielded : e \notin extracted /\ \A w \in Workers : entry[w] # e}

C13_ExitFollowsPersistence ==
    /\ [](main_pc = "done" =>
             /\ exit_code \in {"success", "failure"}
             /\ exit_code = "success" <=> written = AllWritten)
    /\ [](main_pc # "done" => exit_code = "running" /\ written = {})
    /\ [][(written' # written \/ exit_code' # exit_code) =>
             /\ main_pc = "save"
             /\ ScanComplete
             /\ \A i \in Roots : dir_state[i] = "done"
             /\ \A w \in Workers : pc[w] = "idle"]_vars
    /\ [](main_pc = "save" =>
             /\ ENABLED (SaveResults /\ exit_code' = "success" /\ written' = AllWritten)
             /\ ENABLED (SaveResults /\ exit_code' = "failure" /\ written' = {})
             /\ ENABLED (SaveResults /\ exit_code' = "failure"
                                      /\ written' = {"scan_results.json"}))
    /\ []((Failed # {} /\ main_pc # "done") => CanStep)

\* main has returned with success from a scan of /home/docs in which a file
\* without extension was dropped and an unreadable one was skipped
C13_Witness ==
    /\ main_pc = "done"
    /\ exit_code = "success"
    /\ written = AllWritten
    /\ [root |-> 2, path |-> Join(p_docs, n_readme)] \in Failed
    /\ [root |-> 2, path |-> Join(p_docs, n_locked_log)] \in Failed

(***************************************************************************)
(* C14.  The documented scenario: the root /home/proj holds a.csv, b.CSV,  *)
(* notes.txt, cache/x.json and .git/config.json, and "cache" is excluded.  *)
(* With every file of the root readable, every complete scan has exactly   *)
(* a.csv and b.CSV in csv, notes.txt in text, nothing in json (and in      *)
(* excel), and file_count 3, whatever the interleaving of the workers.     *)
(***************************************************************************)
PathsOf(seq) == {seq[k].path : k \in DOMAIN seq}

DocumentedScenario ==
    /\ scan_dirs = <<p_proj>>
    /\ exclude_dirs = <<str_cache>>
    /\ unreadable = LockedFiles

C14_DocumentedScenario ==
    (DocumentedScenario /\ ScanComplete) =>
        /\ Len(results.csv) = 2
        /\ PathsOf(results.csv) = {Join(p_proj, n_a_csv), Join(p_proj, n_b_CSV)}
        /\ Len(results.text) = 1
        /\ PathsOf(results.text) = {Join(p_proj, n_notes_txt)}
        /\ Len(results.json) = 0
        /\ Len(results.excel) = 0
        /\ file_count = 3
        /\ summary.file_count = 3
        /\ summary.categories.csv = 2
        /\ summary.categories.text = 1
        /\ summary.categories.json = 0

\* main has returned from the scenario, in which b.CSV was stored before
\* a.csv although the walk hands a.csv out first
C14_Witness ==
    /\ DocumentedScenario
    /\ main_pc = "done"
    /\ results.csv[1].path = Join(p_proj, n_b_CSV)
    /\ results.csv[2].path = Join(p_proj, n_a_csv)
    /\ file_count = 3

(***************************************************************************)
(* The Path Classifier on its own: is_target_file applied by a worker to   *)
(* paths built from a directory, a stem and an extension in every mix of   *)
(* upper and lower case.                                                   *)
(***************************************************************************)
upper_char(c) ==
    IF \E i \in DOMAIN Lowers : Lowers[i] = c
    THEN Uppers[CHOOSE i \in DOMAIN Lowers : Lowers[i] = c]
    ELSE c

RECURSIVE CaseVariants(_)
CaseVariants(s) ==
    IF s = <<>> THEN {<<>>}
    ELSE {<<c>> \o t : c \in {s[1], upper_char(s[1])}, t \in CaseVariants(Tail(s))}

\* the extensions tried, each with the category the table gives it
ProbeExtensions ==
    { [chars |-> <<"c","s","v">>,         category |-> "csv"],
      [chars |-> <<"x","l","s","x">>,     category |-> "excel"],
      [chars |-> <<"x","l","s">>,         category |-> "excel"],
      [chars |-> <<"x","l","s","m">>,     category |-> "excel"],
      [chars |-> <<"x","l","s","b">>,     category |-> "excel"],
      [chars |-> <<"t","x","t">>,         category |-> "text"],
      [chars |-> <<"m","d">>,             category |-> "text"],
      [chars |-> <<"l","o","g">>,         category |-> "text"],
      [chars |-> <<"r","t","f">>,         category |-> "text"],
      [chars |-> <<"j","s","o","n">>,     category |-> "json"],
      [chars |-> <<"c","s","v","x">>,     category |-> NoCategory],
      [chars |-> <<"c","s">>,             category |-> NoCategory],
      [chars |-> <<"j","s","o","n","l">>, category |-> NoCategory],
      [chars |-> <<"d","o","c">>,         category |-> NoCategory],
      [chars |-> <<"c","s","v","~">>,     category |-> NoCategory],
      [chars |-> <<>>,                    category |-> NoCategory] }

\* the directory part: none, a plain one, one whose name ends in ".csv"
ProbeDirs == { <<>>, <<"/","h">>, <<"/","d",".","c","s","v">> }

\* the file name before its last dot: plain, with a dot inside, ending in a
\* known extension, hidden
ProbeStems == { <<"a">>, <<"b",".","t","a","r">>, <<"x",".","j","s","o","n">>, <<".","h">> }

\* file names without an extension: no dot, only a leading dot
ProbeBareNames == { <<"r","e","a","d","m","e">>, <<"c","s","v">>, <<".","c","s","v">>,
                    <<".","J","S","O","N">> }

ProbeJoin(dir, name) == IF dir = <<>> THEN name ELSE Join(dir, name)

\* each probe is a path and the category of the extension it was built with
Probes ==
    UNION { { [path |-> ProbeJoin(d, st \o <<".">> \o v), category |-> x.category] :
                  d \in ProbeDirs, st \in ProbeStems, v \in CaseVariants(x.chars) }
            : x \in ProbeExtensions }
    \cup { [path |-> ProbeJoin(d, n), category |-> NoCategory] :
               d \in ProbeDirs, n \in ProbeBareNames }
    \cup { [path |-> ProbeJoin(d, <<"a",".">> \o v \o <<"/">>), category |-> "csv"] :
               d \in ProbeDirs, v \in CaseVariants(<<"c","s","v">>) }

InitClassifier ==
    /\ scan_dirs = <<>>
    /\ exclude_dirs = <<>>
    /\ platform \in Platforms
    /\ unreadable = LockedFiles
    /\ main_pc = "start"
    /\ dir_state = <<>>
    /\ walkers = <<>>
    /\ \E w \in Workers, pr \in Probes :
          /\ pc = [v \in Workers |-> IF v = w THEN "classify" ELSE "idle"]
          /\ entry = [v \in Workers |-> IF v = w THEN [root |-> 0, path |-> pr.path]
                                                   ELSE NoItemEntry]
    /\ item = [w \in Workers |-> NoItem]
    /\ results = [csv |-> <<>>, excel |-> <<>>, text |-> <<>>, json |-> <<>>, email |-> <<>>]
    /\ file_count = 0
    /\ results_mutex = NoOwner
    /\ count_mutex = NoOwner
    /\ total_count = 0
    /\ summary = NoSummary
    /\ written = {}
    /\ exit_code = "running"
    /\ yielded = {}
    /\ extracted = {}

\* let category = is_target_file(path)
Classify(w) ==
    /\ pc[w] = "classify"
    /\ item' = [item EXCEPT ![w] = [category |-> is_target_file(entry[w].path),
                                    file_info |-> NoFileInfo]]
    /\ pc' = [pc EXCEPT ![w] = "classified"]
    /\ UNCHANGED <<config_vars, unreadable, main_vars, entry, shared_vars, walk_vars,
                   extracted>>

NextClassifier == \E w \in Workers : Classify(w)

SpecClassifier == InitClassifier /\ [][NextClassifier]_vars

(***************************************************************************)
(* C15.  The classifier maps a path to a category by its extension alone,  *)
(* whatever the case of its letters: csv to csv; xlsx, xls, xlsm, xlsb to  *)
(* excel; txt, md, log, rtf to text; json to json; any other extension and *)
(* no extension to none; the directory part and the stem play no role, and *)
(* the result is never outside csv, excel, text, json and none.            *)
(***************************************************************************)
C15_ClassifiedByExtension ==
    \A w \in Workers : pc[w] = "classified" =>
        /\ item[w].category \in Categories \cup {NoCategory}
        /\ \E pr \in Probes : pr.path = entry[w].path
        /\ \A pr \in Probes : pr.path = entry[w].path => item[w].category = pr.category

\* the classifier has returned excel for b.tar.XlSb in a directory whose own
\* name ends in .csv
C15_Witness ==
    \E w \in Workers :
        /\ pc[w] = "classified"
        /\ entry[w].path = <<"/","d",".","c","s","v","/","b",".","t","a","r",".","X","l","S","b">>
        /\ item[w].category = "excel"

(***************************************************************************)
(* C16.  A directory is put to the predicate before anything is read from  *)
(* it: between any two steps of a walk, a directory the filter of that     *)
(* walk rejects is not on the walk's stack, no entry has been read from    *)
(* it, no directory beneath it has been opened, and no entry beneath it    *)
(* has been handed to a worker, is held by one or has been extracted.      *)
(* (walkdir opens a directory when it meets it, before the predicate runs, *)
(* and closes it unread on rejection.)                                     *)
(***************************************************************************)
DirPaths == {n.path : n \in {m \in Nodes : m.kind = "dir"}}

\* the directories of root i's tree that the filter of its walk rejects
RejectedDirs(i) ==
    {q \in DirPaths :
        /\ q = scan_dirs[i] \/ Below(scan_dirs[i], q)
        /\ ~filter_predicate(DirEntry(q, 0), scan_dirs[i], exclude_dirs)}

C16_PrunedBeforeDescent ==
    \A i \in Roots : \A q \in RejectedDirs(i) :
        /\ q \notin walkers[i].read
        /\ \A k \in DOMAIN walkers[i].from : walkers[i].from[k] # q
        /\ \A d \in walkers[i].opened \cup walkers[i].read : ~Below(q, d)
        /\ \A e \in yielded \cup extracted : e.root = i => ~Below(q, e.path)
        /\ \A w \in Workers : entry[w].root = i => ~Below(q, entry[w].path)

\* the walk of /home/proj with "cache" excluded is over: cache and .git were
\* met and opened, nothing was read from them, and the files beside them
\* were handed out
C16_Witness ==
    /\ scan_dirs = <<p_proj>>
    /\ dir_state[1] = "done"
    /\ RejectedDirs(1) = {p_cache, p_git}
    /\ {p_cache, p_git} \subseteq walkers[1].opened
    /\ walkers[1].read = {p_proj}
    /\ Cardinality(yielded) = 3

(***************************************************************************)
(* C17.  Every scan terminates without deadlock.  A worker takes the       *)
(* counter lock only while it holds the results lock, and holds neither    *)
(* when it is idle, processing an entry or waiting for the results lock;   *)
(* main holds the results lock, and reads the counter under it, only once  *)
(* every root is done and every worker idle; no two threads wait for each  *)
(* other; until main has returned some thread can step; every step lowers  *)
(* a measure of the work left, so no run goes on for ever; and every fair  *)
(* run reaches the return of main with both locks free.                    *)
(***************************************************************************)
main_rank(mp) ==
    CASE mp = "start"        -> 8
      [] mp = "scanning"     -> 7
      [] mp = "outlook_lock" -> 6
      [] mp = "outlook_scan" -> 5
      [] mp = "summary_lock" -> 4
      [] mp = "read_count"   -> 3
      [] mp = "summarize"    -> 2
      [] mp = "save"         -> 1
      [] OTHER               -> 0

dir_rank(d) ==
    CASE d = "pending" -> 3
      [] d = "walking" -> 2
      [] d = "drained" -> 1
      [] OTHER         -> 0

pc_rank(p) ==
    CASE p = "process"      -> 7
      [] p = "lock_results" -> 6
      [] p = "lock_count"   -> 5
      [] p = "push"         -> 4
      [] p = "incr"         -> 3
      [] p = "drop_count"   -> 2
      [] p = "drop_results" -> 1
      [] OTHER              -> 0

RECURSIVE SumOver(_, _)
SumOver(S, f) ==
    IF S = {} THEN 0
    ELSE LET x == CHOOSE y \in S : TRUE IN f[x] + SumOver(S \ {x}, f)

\* the work left when main is at mp, the roots in the states ds, the entries
\* yl handed out, the workers at pcs and the files unr unreadable: a walk
\* hands out each file of the tree at most once, and an entry still to be
\* handed out weighs more than a worker's way through it
Work(mp, ds, yl, pcs, unr) ==
    100 * main_rank(mp)
    + SumOver(Roots, [i \in Roots |-> 10 * dir_rank(ds[i])])
    + 8 * (Len(scan_dirs) * Cardinality(FilePaths) - Cardinality(yl))
    + SumOver(Workers, [w \in Workers |-> pc_rank(pcs[w])])
    + Cardinality(RevocableFiles \ unr)

Measure == Work(main_pc, dir_state, yielded, pc, unreadable)

C17_TerminatesWithoutDeadlock ==
    /\ [][\A w \in Workers :
             (count_mutex' = w /\ count_mutex # w) => (results_mutex = w /\ results_mutex' = w)]_vars
    /\ [](\A w \in Workers :
             /\ count_mutex = w => results_mutex = w
             /\ pc[w] \in {"idle", "process", "lock_results"}
                   => (results_mutex # w /\ count_mutex # w))
    /\ []((results_mutex = MainThread \/ main_rank(main_pc) <= 6) =>
             /\ \A i \in Roots : dir_state[i] = "done"
             /\ \A w \in Workers : pc[w] = "idle"
             /\ count_mutex = NoOwner)
    /\ [](main_pc = "read_count" => results_mutex = MainThread)
    /\ [](~ \E w1, w2 \in Workers :
             /\ results_mutex = w1 /\ pc[w1] = "lock_count"
             /\ count_mutex = w2 /\ pc[w2] = "lock_results")
    /\ [](main_pc # "done" => CanStep)
    /\ [](Measure \in Nat)
    /\ [][Work(main_pc', dir_state', yielded', pc', unreadable') < Measure]_vars
    /\ <>[](main_pc = "done" /\ results_mutex = NoOwner /\ count_mutex = NoOwner)

\* main has returned, both locks free, from a scan of two roots that stored
\* two files or more
C17_Witness ==
    /\ main_pc = "done"
    /\ results_mutex = NoOwner /\ count_mutex = NoOwner
    /\ Len(scan_dirs) = 2
    /\ file_count >= 2
    /\ Measure < 8 * Len(scan_dirs) * Cardinality(FilePaths)

(***************************************************************************)
(* C18.  During the scan, whenever no worker holds the results lock the    *)
(* counter equals len(csv) + len(excel) + len(text) + len(json).  An item  *)
(* on its way to the match always carries one of the four categories, so   *)
(* the fall-through arm is never taken: the match appends the worker's     *)
(* record to exactly one of the four sequences and leaves the others and   *)
(* the mail profiles alone, and the increment that follows adds exactly    *)
(* one; inside a hold the counter is behind by one between the two.        *)
(***************************************************************************)
FileSum == Len(results.csv) + Len(results.excel) + Len(results.text) + Len(results.json)

C18_CounterMatchesSequences ==
    /\ []((\A w \in Workers : results_mutex # w) => file_count = FileSum)
    /\ [](\A w \in Workers :
             /\ pc[w] \in {"lock_results", "lock_count", "push"}
                   => item[w].category \in Categories
             /\ (results_mutex = w /\ pc[w] = "incr") => file_count + 1 = FileSum
             /\ (results_mutex = w /\ pc[w] # "incr") => file_count = FileSum)
    /\ [][\A w \in Workers :
             /\ (pc[w] = "push" /\ pc'[w] = "incr") =>
                   /\ \E c \in Categories :
                         /\ results'[c] = Append(results[c], item[w].file_info)
                         /\ \A d \in (Categories \ {c}) \cup {"email"} :
                               results'[d] = results[d]
                   /\ file_count' = file_count
             /\ (pc[w] = "incr" /\ pc'[w] = "drop_count") =>
                   /\ file_count' = file_count + 1
                   /\ results' = results]_vars

\* the scan is under way, two records are stored and counted, no worker holds
\* the results lock and one is about to ask for it with a third record
C18_Witness ==
    /\ main_pc = "scanning"
    /\ \A w \in Workers : results_mutex # w
    /\ file_count = 2 /\ FileSum = 2
    /\ \E w \in Workers : pc[w] = "lock_results"

(***************************************************************************)
(* C19.  The filter is applied to files as it is to directories: a regular *)
(* file on disk whose own name starts with '.' or whose lowercased path,   *)
(* its own name included, contains a lowercased exclusion fragment is      *)
(* never handed to a worker, held, extracted or stored, whatever its       *)
(* extension and although every directory above it passes the filter.      *)
(***************************************************************************)
FilteredFiles == {p \in FilePaths : HiddenName(p) \/ MatchesFragment(p)}

C19_FilterAppliesToFiles ==
    \A p \in FilteredFiles :
        /\ \A e \in yielded \cup extracted : e.path # p
        /\ \A w \in Workers : entry[w].path # p /\ item[w].file_info.path # p
        /\ CountPath(AllFiles(results), p) = 0

\* the scan of /home/docs with "cache" excluded is complete: entries were
\* read from the directory, Book.XLSX beside them is stored, and .env.json
\* and Cached.md, both of a recognized extension, are among the filtered
C19_Witness ==
    /\ ScanComplete
    /\ scan_dirs = <<p_git, p_docs>>
    /\ p_docs \in walkers[2].read
    /\ ~HiddenName(p_docs) /\ ~MatchesFragment(p_docs)
    /\ {Join(p_docs, n_env_json), Join(p_docs, n_Cached_md)} \subseteq FilteredFiles
    /\ is_target_file(Join(p_docs, n_env_json)) = "json"
    /\ is_target_file(Join(p_docs, n_Cached_md)) = "text"
    /\ CountPath(results.excel, Join(p_docs, n_Book_XLSX)) = 1

=============================================================================
